---- MODULE Spec2Model ----
(***************************************************************************)
(* Model of builder.js (the Builder factory, src/builder.js:165-286).     *)
(*                                                                         *)
(* The program keeps its state in JavaScript objects: the store           *)
(* `this.args = {}` of every builder instance, the `nullables` lookup      *)
(* object, the arrays and objects the accumulators create and the ones    *)
(* the caller passes in.  They are modelled as a heap of objects with own  *)
(* properties and a prototype link, and property reads and writes follow   *)
(* the prototype chain as the language does.                               *)
(***************************************************************************)
EXTENDS Integers, Sequences, FiniteSets, TLC

VARIABLES
  paramspec,   \* the caller's array of parameter specifications
  cnstr,       \* the target constructor handed to Builder
  bldr,        \* the generated type Bldr (or the error Builder threw)
  heap,        \* every JavaScript object alive, by address
  builders,    \* the builder instances: the address of each one's this.args
  last,        \* the last call made and what came out of it
  hist,        \* per builder, the setter/accumulator calls made on it
  ncalls       \* number of method calls made so far

vars == <<paramspec, cnstr, bldr, heap, builders, last, hist, ncalls>>

-----------------------------------------------------------------------------
(* Bounds of the model *)

MaxCalls == 3
\* entries the caller's specification array may hold after the caller changed it
MaxEntries == 2
MaxBuilders == 2

-----------------------------------------------------------------------------
(* JavaScript strings are sequences of characters *)

sP == <<"p">>
sCapP == <<"P">>
sQ == <<"q">>
sItem == <<"i">>
sConstructor == <<"c","o","n","s","t","r","u","c","t","o","r">>
sProto == <<"_","_","p","r","o","t","o","_","_">>
sPush == <<"p","u","s","h">>
sK == <<"k">>
sJ == <<"j">>
sOne == <<"1">>
sA == <<"a">>
sB == <<"b">>

Lower == <<"a","b","c","d","e","f","g","h","i","j","k","l","m",
           "n","o","p","q","r","s","t","u","v","w","x","y","z">>
Upper == <<"A","B","C","D","E","F","G","H","I","J","K","L","M",
           "N","O","P","Q","R","S","T","U","V","W","X","Y","Z">>
Digits == <<"0","1","2","3","4","5","6","7","8","9">>

toUpperCase(c) ==
  IF \E i \in 1..Len(Lower) : Lower[i] = c
  THEN Upper[CHOOSE i \in 1..Len(Lower) : Lower[i] = c]
  ELSE c

captlize1stChar(str) ==
  IF str = <<>> THEN <<>>
  ELSE <<toUpperCase(Head(str))>> \o Tail(str)

-----------------------------------------------------------------------------
(* JavaScript values *)

Undefined == [t |-> "undefined"]
Null == [t |-> "null"]
Num(n) == [t |-> "number", v |-> n]
Str(s) == [t |-> "string", v |-> s]
Bool(b) == [t |-> "boolean", v |-> b]
Ref(a) == [t |-> "object", ref |-> a]
Hole == [t |-> "hole"]

IsRef(v) == v.t = "object"

\* ToBoolean: undefined, null, false, 0 and '' are falsy, every object is truthy
Truthy(v) ==
  CASE v.t = "undefined" -> FALSE
    [] v.t = "null" -> FALSE
    [] v.t = "hole" -> FALSE
    [] v.t = "boolean" -> v.v
    [] v.t = "number" -> v.v # 0
    [] v.t = "string" -> v.v # <<>>
    [] OTHER -> TRUE

-----------------------------------------------------------------------------
(* Objects: own properties in creation order, array elements, prototype *)

NewObject(proto) == [kind |-> "object", props |-> <<>>, items |-> <<>>, proto |-> proto]
NewArray(items, proto) == [kind |-> "array", props |-> <<>>, items |-> items, proto |-> proto]

\* The built-in objects the code reaches through prototype chains
ObjectPrototype == Ref(1)
ObjectFn == Ref(2)
ArrayPrototype == Ref(3)
ArrayFn == Ref(4)
ArrayPush == [t |-> "function", native |-> "Array.prototype.push"]
\* What the caller owns before calling anything: an array ['a'] and an object {k: 'a'}
CallerArray == Ref(5)
CallerObject == Ref(6)

\* Function.prototype holds none of the keys of the model and is left out of
\* the chain of the two constructor functions.
InitHeap ==
  << [kind |-> "object", props |-> << <<sConstructor, ObjectFn>> >>, items |-> <<>>, proto |-> Null],
     [kind |-> "function", props |-> <<>>, items |-> <<>>, proto |-> ObjectPrototype],
     [kind |-> "object", props |-> << <<sConstructor, ArrayFn>>, <<sPush, ArrayPush>> >>,
      items |-> <<>>, proto |-> ObjectPrototype],
     [kind |-> "function", props |-> <<>>, items |-> <<>>, proto |-> ObjectPrototype],
     NewArray(<<Str(sA)>>, ArrayPrototype),
     [kind |-> "object", props |-> << <<sK, Str(sA)>> >>, items |-> <<>>, proto |-> ObjectPrototype] >>

IsDigit(c) == \E i \in 1..Len(Digits) : Digits[i] = c
DigitVal(c) == (CHOOSE i \in 1..Len(Digits) : Digits[i] = c) - 1

\* A canonical array index: all digits, no leading zero
IsArrayIndex(key) ==
  /\ key # <<>>
  /\ \A i \in 1..Len(key) : IsDigit(key[i])
  /\ (Len(key) = 1 \/ key[1] # "0")

RECURSIVE ToIndex(_)
ToIndex(key) ==
  IF key = <<>> THEN 0
  ELSE 10 * ToIndex(SubSeq(key, 1, Len(key) - 1)) + DigitVal(key[Len(key)])

PropIndex(o, key) == CHOOSE i \in 1..Len(o.props) : o.props[i][1] = key

HasOwn(o, key) ==
  IF o.kind = "array" /\ IsArrayIndex(key)
  THEN ToIndex(key) < Len(o.items) /\ o.items[ToIndex(key) + 1] # Hole
  ELSE \E i \in 1..Len(o.props) : o.props[i][1] = key

OwnValue(o, key) ==
  IF o.kind = "array" /\ IsArrayIndex(key)
  THEN o.items[ToIndex(key) + 1]
  ELSE o.props[PropIndex(o, key)][2]

\* [[Get]]: own property, else the __proto__ getter of Object.prototype, else
\* the prototype's property
RECURSIVE Lookup(_, _, _, _)
Lookup(h, a, key, recv) ==
  IF HasOwn(h[a], key) THEN OwnValue(h[a], key)
  ELSE IF a = ObjectPrototype.ref /\ key = sProto
       THEN (IF IsRef(recv) THEN h[recv.ref].proto ELSE ObjectPrototype)
  ELSE IF h[a].proto = Null THEN Undefined
  ELSE Lookup(h, h[a].proto.ref, key, recv)

\* v[key] for a value that is neither undefined nor null
Get(h, v, key) ==
  IF IsRef(v) THEN Lookup(h, v.ref, key, v)
  ELSE Lookup(h, ObjectPrototype.ref, key, v)

\* Where a write of key finds the property along the chain of a
RECURSIVE ProtoKind(_, _, _)
ProtoKind(h, a, key) ==
  IF HasOwn(h[a], key) THEN "data"
  ELSE IF a = ObjectPrototype.ref /\ key = sProto THEN "accessor"
  ELSE IF h[a].proto = Null THEN "none"
  ELSE ProtoKind(h, h[a].proto.ref, key)

RECURSIVE InChain(_, _, _)
InChain(h, a, target) ==
  IF a = target THEN TRUE
  ELSE IF h[a].proto = Null THEN FALSE
  ELSE InChain(h, h[a].proto.ref, target)

SetItem(items, idx, val) ==
  IF idx < Len(items) THEN [items EXCEPT ![idx + 1] = val]
  ELSE items \o [i \in 1..(idx - Len(items)) |-> Hole] \o <<val>>

DefineOwn(o, key, val) ==
  IF o.kind = "array" /\ IsArrayIndex(key)
  THEN [o EXCEPT !.items = SetItem(o.items, ToIndex(key), val)]
  ELSE IF HasOwn(o, key)
       THEN [o EXCEPT !.props[PropIndex(o, key)] = <<key, val>>]
       ELSE [o EXCEPT !.props = Append(o.props, <<key, val>>)]

\* The __proto__ setter of Object.prototype, called on the object at a
SetProto(h, a, val) ==
  IF ~(IsRef(val) \/ val = Null) THEN [h |-> h, thrown |-> FALSE]
  ELSE IF h[a].proto = val THEN [h |-> h, thrown |-> FALSE]
  ELSE IF a = ObjectPrototype.ref THEN [h |-> h, thrown |-> TRUE]
  ELSE IF IsRef(val) /\ InChain(h, val.ref, a) THEN [h |-> h, thrown |-> TRUE]
  ELSE [h |-> [h EXCEPT ![a].proto = val], thrown |-> FALSE]

\* [[Set]]: obj[key] = val on the object at address a
Set(h, a, key, val) ==
  IF ProtoKind(h, a, key) = "accessor" THEN SetProto(h, a, val)
  ELSE [h |-> [h EXCEPT ![a] = DefineOwn(h[a], key, val)], thrown |-> FALSE]

\* Own keys in the order Object.keys reports them: array indices ascending,
\* then the other keys in creation order
RECURSIVE SortedIndices(_)
SortedIndices(S) ==
  IF S = {} THEN <<>>
  ELSE LET m == CHOOSE k \in S : \A j \in S : ToIndex(k) <= ToIndex(j)
       IN <<m>> \o SortedIndices(S \ {m})

RECURSIVE NamedKeys(_)
NamedKeys(props) ==
  IF props = <<>> THEN <<>>
  ELSE (IF IsArrayIndex(Head(props)[1]) THEN <<>> ELSE <<Head(props)[1]>>)
       \o NamedKeys(Tail(props))

OwnKeys(o) ==
  SortedIndices({o.props[i][1] : i \in {j \in 1..Len(o.props) : IsArrayIndex(o.props[j][1])}})
  \o NamedKeys(o.props)

-----------------------------------------------------------------------------
(* Errors *)

TypeError(msg) == [name |-> "TypeError", paramName |-> Undefined, message |-> Str(msg)]
\* The constructor takes (paramName, message) in this order
ParamSpecTypeError(paramName, message) ==
  [name |-> "ParamSpecTypeError", paramName |-> paramName, message |-> message]
MissingArgumentError(paramName) ==
  [name |-> "MissingArgumentError", paramName |-> paramName, message |-> Undefined]
NullArgumentError(paramName) ==
  [name |-> "NullArgumentError", paramName |-> paramName, message |-> Undefined]
NoError == [name |-> "none", paramName |-> Undefined, message |-> Undefined]

-----------------------------------------------------------------------------
(* Target constructors and what they construct *)

\* function TestConstructor() { this.args = [...arguments]; this.cnstrTest = ... }
TestConstructor == [t |-> "function", target |-> "TestConstructor"]
\* function () { return true; }
ReturnsTrue == [t |-> "function", target |-> "ReturnsTrue"]
\* a constructor that returns an object of its own instead of this
ReturnsOwn == [t |-> "function", target |-> "ReturnsOwn"]
\* function () { throw new Error('boom'); }
Throws == [t |-> "function", target |-> "Throws"]
\* function (x) { return x; }
ReturnsArg == [t |-> "function", target |-> "ReturnsArg"]

sArgs == <<"a","r","g","s">>
sCnstrTest == <<"c","n","s","t","r","T","e","s","t">>
constructorMsg == Str(<<"This object was constructed with TestConstructor">>)
sOwn == <<"o","w","n">>

PrototypeOf(c) == [t |-> "prototype", of |-> c.target]
Instance(proto, props) == [t |-> "instance", proto |-> proto, props |-> props]
ArgumentsArray(args) == [t |-> "arguments", items |-> args]

\* what a target constructor throws
sBoom == <<"b","o","o","m">>
TargetError == [name |-> "Error", paramName |-> Undefined, message |-> Str(sBoom)]

\* cnstr.apply(this, args): the receiver after the call, the value returned
\* and what the call threw, if it threw
Apply(c, this, args) ==
  CASE c.target = "TestConstructor" ->
         [this |-> [this EXCEPT !.props = this.props \o
                       << <<sArgs, ArgumentsArray(args)>>, <<sCnstrTest, constructorMsg>> >>],
          ret |-> Undefined, err |-> NoError]
    [] c.target = "ReturnsTrue" -> [this |-> this, ret |-> Bool(TRUE), err |-> NoError]
    [] c.target = "Throws" -> [this |-> this, ret |-> Undefined, err |-> TargetError]
    [] c.target = "ReturnsArg" ->
         [this |-> this, ret |-> IF args = <<>> THEN Undefined ELSE args[1],
          err |-> NoError]
    [] OTHER ->
         [this |-> this,
          ret |-> Instance(ObjectPrototype, << <<sOwn, ArgumentsArray(args)>> >>),
          err |-> NoError]

\* How an expression ends: with a value, or throwing err
Normal(val) == [err |-> NoError, val |-> val]
Abrupt(err) == [err |-> err, val |-> [t |-> "none"]]

\* new C(...args): the object returned by C when it returns one, else this;
\* what C throws, new C throws
Construct(proto, c, args) ==
  LET r == Apply(c, Instance(proto, <<>>), args)
  IN IF r.err # NoError THEN Abrupt(r.err)
     ELSE Normal(IF r.ret.t = "instance" \/ IsRef(r.ret) THEN r.ret ELSE r.this)

\* f.constructor = cnstr on a constructed object
AssignProp(f, key, val) ==
  IF \E i \in 1..Len(f.props) : f.props[i][1] = key
  THEN [f EXCEPT !.props[CHOOSE i \in 1..Len(f.props) : f.props[i][1] = key] = <<key, val>>]
  ELSE [f EXCEPT !.props = Append(f.props, <<key, val>>)]

\* invokeCnstr with new F() wrapped in try/catch, the failure turned into a TypeError
invokeCnstr_Wraps(c, args, h) ==
  LET f == Construct(PrototypeOf(c), c, args)
  IN IF f.err # NoError
       THEN [err |-> TypeError(<<"constructor failed">>), val |-> f.val, h |-> h]
     ELSE IF IsRef(f.val)
       THEN [err |-> NoError, val |-> f.val, h |-> Set(h, f.val.ref, sConstructor, c).h]
     ELSE [err |-> NoError, val |-> AssignProp(f.val, sConstructor, c), h |-> h]

\* invokeCnstr has no try: let f = new F() throws what cnstr throws.
\* f.constructor = cnstr writes to the object new F() yielded: a fresh one, or
\* an object of the heap when cnstr returned one of its arguments.
invokeCnstr(c, args, h) ==
  LET f == Construct(PrototypeOf(c), c, args)
  IN IF f.err # NoError
       THEN [err |-> f.err, val |-> f.val, h |-> h]
     ELSE IF IsRef(f.val)
       THEN [err |-> NoError, val |-> f.val, h |-> Set(h, f.val.ref, sConstructor, c).h]
     ELSE [err |-> NoError, val |-> AssignProp(f.val, sConstructor, c), h |-> h]

-----------------------------------------------------------------------------
(* Parameter specifications *)

ParamSpec(name, itemName, isRequired, isNullable, isList, isMap) ==
  [t |-> "paramspec", name |-> name, itemName |-> itemName,
   isRequired |-> isRequired, isNullable |-> isNullable,
   isList |-> isList, isMap |-> isMap]

SpecArray(items) == [t |-> "array", items |-> items]

isArray(obj) == obj.t = "array"

\* typeof of an entry of the specification array
TypeofParam(param) ==
  CASE param.t = "paramspec" -> "object"
    [] param.t = "null" -> "object"
    [] param.t = "array" -> "object"
    [] param.t = "undefined" -> "undefined"
    [] OTHER -> param.t

\* param.<attr>: entries that are not specification objects hold none
Attr(param, attr) == IF param.t = "paramspec" THEN param[attr] ELSE Undefined

TypeofAttr(v) == IF v.t = "null" THEN "object" ELSE v.t

\* typecheckParamSpec throwing the plain TypeError for a wrong name
typecheckParamSpec_PlainTypeError(param) ==
  IF param = Null \/ TypeofParam(param) # "object"
    THEN ParamSpecTypeError(Str(<<"must be a non-null object">>), Undefined)
  ELSE IF TypeofAttr(Attr(param, "name")) # "string"
    THEN TypeError(<<"requires string property name">>)
  ELSE IF Truthy(Attr(param, "itemName")) /\ TypeofAttr(Attr(param, "itemName")) # "string"
    THEN ParamSpecTypeError(Attr(param, "name"), Str(<<"itemName must be a string">>))
  ELSE NoError

\* typecheckParamSpec testing the presence of itemName, not its truthiness
typecheckParamSpec_PresentItemName(param) ==
  IF param = Null \/ TypeofParam(param) # "object"
    THEN ParamSpecTypeError(Str(<<"must be a non-null object">>), Undefined)
  ELSE IF TypeofAttr(Attr(param, "name")) # "string"
    THEN ParamSpecTypeError(Str(<<"requires string property name">>), Undefined)
  ELSE IF Attr(param, "itemName") # Undefined /\ TypeofAttr(Attr(param, "itemName")) # "string"
    THEN ParamSpecTypeError(Attr(param, "name"), Str(<<"itemName must be a string">>))
  ELSE NoError

typecheckParamSpec(param) ==
  IF param = Null \/ TypeofParam(param) # "object"
    THEN ParamSpecTypeError(Str(<<"must be a non-null object">>), Undefined)
  ELSE IF TypeofAttr(Attr(param, "name")) # "string"
    THEN ParamSpecTypeError(Str(<<"requires string property name">>), Undefined)
  ELSE IF Truthy(Attr(param, "itemName")) /\ TypeofAttr(Attr(param, "itemName")) # "string"
    THEN ParamSpecTypeError(Attr(param, "name"), Str(<<"itemName must be a string">>))
  ELSE NoError

\* The closures Builder hangs on Bldr.prototype
Setter(name) == [kind |-> "set", name |-> name]
ListAdder(name) == [kind |-> "addList", name |-> name]
MapAdder(name) == [kind |-> "addMap", name |-> name]
BuildMethod == [kind |-> "build", name |-> <<>>]

sSet == <<"s","e","t">>
sAdd == <<"a","d","d">>
sBuild == <<"b","u","i","l","d">>

PutMethod(methods, key, closure) ==
  [k \in DOMAIN methods \cup {key} |-> IF k = key THEN closure ELSE methods[k]]

\* The loop body without the test of isList && isMap
LoopBody_NoExclusion(acc, param) ==
  LET tc == typecheckParamSpec(param)
      name == param.name.v
      itemName == IF (Truthy(param.isList) \/ Truthy(param.isMap)) /\ Truthy(param.itemName)
                  THEN param.itemName.v ELSE name
      required == IF Truthy(param.isRequired)
                  THEN Append(acc.requiredParams, name) ELSE acc.requiredParams
      h1 == IF Truthy(param.isNullable)
            THEN Set(acc.h, acc.nullables, name, Bool(TRUE)).h ELSE acc.h
      m1 == PutMethod(acc.methods, sSet \o captlize1stChar(name), Setter(name))
      m2 == IF Truthy(param.isList)
            THEN PutMethod(m1, sAdd \o captlize1stChar(itemName), ListAdder(name)) ELSE m1
      m3 == IF Truthy(param.isMap)
            THEN PutMethod(m2, sAdd \o captlize1stChar(itemName), MapAdder(name)) ELSE m2
  IN IF tc # NoError THEN [acc EXCEPT !.err = tc]
     ELSE [acc EXCEPT !.h = h1, !.requiredParams = required, !.methods = m3]

\* One pass of the loop over paramspec, src/builder.js:232-262
LoopBody(acc, param) ==
  LET tc == typecheckParamSpec(param)
      name == param.name.v
      itemName == IF (Truthy(param.isList) \/ Truthy(param.isMap)) /\ Truthy(param.itemName)
                  THEN param.itemName.v ELSE name
      required == IF Truthy(param.isRequired)
                  THEN Append(acc.requiredParams, name) ELSE acc.requiredParams
      h1 == IF Truthy(param.isNullable)
            THEN Set(acc.h, acc.nullables, name, Bool(TRUE)).h ELSE acc.h
      m1 == PutMethod(acc.methods, sSet \o captlize1stChar(name), Setter(name))
      m2 == IF Truthy(param.isList)
            THEN PutMethod(m1, sAdd \o captlize1stChar(itemName), ListAdder(name)) ELSE m1
      m3 == IF Truthy(param.isMap)
            THEN PutMethod(m2, sAdd \o captlize1stChar(itemName), MapAdder(name)) ELSE m2
  IN IF tc # NoError THEN [acc EXCEPT !.err = tc]
     ELSE IF Truthy(param.isList) /\ Truthy(param.isMap)
       THEN [acc EXCEPT !.err = ParamSpecTypeError(Str(name),
                                  Str(<<"isList and isMap are mutually exclusive">>)),
                        !.h = h1, !.requiredParams = required, !.methods = m1]
     ELSE [acc EXCEPT !.h = h1, !.requiredParams = required, !.methods = m3]

RECURSIVE Loop(_, _)
Loop(acc, params) ==
  IF params = <<>> \/ acc.err # NoError THEN acc
  ELSE Loop(LoopBody(acc, Head(params)), Tail(params))

\* Builder with the check of cnstr made after the loop over the entries
Builder_EntriesFirst(spec, c, h) ==
  LET none == [status |-> "threw", err |-> NoError, h |-> h, nullables |-> 0,
               requiredParams |-> <<>>, methods |-> <<>>]
  IN IF ~isArray(spec)
       THEN [none EXCEPT !.err = TypeError(<<"requires an array of parameter specifications">>)]
     ELSE LET h0 == Append(h, NewObject(ObjectPrototype))
              r == Loop([err |-> NoError, h |-> h0, nullables |-> Len(h0),
                         requiredParams |-> <<>>, methods |-> <<>>], spec.items)
          IN IF r.err # NoError
               THEN [none EXCEPT !.err = r.err, !.h = r.h]
             ELSE IF c.t # "function"
               THEN [none EXCEPT !.err = TypeError(<<"requires a function (constructor)">>)]
             ELSE [status |-> "created", err |-> NoError, h |-> r.h,
                   nullables |-> r.nullables, requiredParams |-> r.requiredParams,
                   methods |-> PutMethod(r.methods, sBuild, BuildMethod)]

\* Builder(paramspec, cnstr), src/builder.js:208-280
Builder(spec, c, h) ==
  LET none == [status |-> "threw", err |-> NoError, h |-> h, nullables |-> 0,
               requiredParams |-> <<>>, methods |-> <<>>]
  IN IF ~isArray(spec)
       THEN [none EXCEPT !.err = TypeError(<<"requires an array of parameter specifications">>)]
     ELSE IF c.t # "function"
       THEN [none EXCEPT !.err = TypeError(<<"requires a function (constructor)">>)]
     ELSE LET h0 == Append(h, NewObject(ObjectPrototype))
              r == Loop([err |-> NoError, h |-> h0, nullables |-> Len(h0),
                         requiredParams |-> <<>>, methods |-> <<>>], spec.items)
          IN IF r.err # NoError
               THEN [none EXCEPT !.err = r.err, !.h = r.h]
               ELSE [status |-> "created", err |-> NoError, h |-> r.h,
                     nullables |-> r.nullables, requiredParams |-> r.requiredParams,
                     methods |-> PutMethod(r.methods, sBuild, BuildMethod)]

-----------------------------------------------------------------------------
(* The generated methods, run on the store this.args at address args *)

NoValue == [t |-> "none"]

\* The instance new Bldr() made, whose store this.args lives at address args
This(args) == [t |-> "bldr", args |-> args]

\* How a call of a generated method ends: it throws err, or it reaches its
\* last statement, return this
Outcome(h, err, this) ==
  [h |-> h, err |-> err, ret |-> IF err = NoError THEN this ELSE NoValue]

\* function(val) { this.args[name] = val; return this; }
SetterCall(h, args, name, val) ==
  LET s == Set(h, args, name, val)
  IN Outcome(s.h, IF s.thrown THEN TypeError(<<"Cyclic __proto__ value">>) ELSE NoError,
                  This(args))

\* The list accumulator ending in return this.args[name].push(val)
ListAdderCall_ReturnsLength(h, args, name, val) ==
  LET cur == Get(h, Ref(args), name)
      h1 == IF Truthy(cur) THEN h
            ELSE Set(Append(h, NewArray(<<>>, ArrayPrototype)), args, name, Ref(Len(h) + 1)).h
      v2 == Get(h1, Ref(args), name)
  IN IF v2 \in {Undefined, Null}
       THEN Outcome(h1, TypeError(<<"Cannot read property push of undefined">>), This(args))
     ELSE IF Get(h1, v2, sPush) # ArrayPush
       THEN Outcome(h1, TypeError(<<"push is not a function">>), This(args))
     ELSE Outcome([h1 EXCEPT ![v2.ref].items = Append(@, val)], NoError,
                  Num(Len(h1[v2.ref].items) + 1))

\* function(val) { if (!this.args[name]) { this.args[name] = [] }
\*                 this.args[name].push(val); return this; }
\* Only arrays inherit push in the model, so push always appends an element.
ListAdderCall(h, args, name, val) ==
  LET cur == Get(h, Ref(args), name)
      h1 == IF Truthy(cur) THEN h
            ELSE Set(Append(h, NewArray(<<>>, ArrayPrototype)), args, name, Ref(Len(h) + 1)).h
      v2 == Get(h1, Ref(args), name)
  IN IF v2 \in {Undefined, Null}
       THEN Outcome(h1, TypeError(<<"Cannot read property push of undefined">>), This(args))
     ELSE IF Get(h1, v2, sPush) # ArrayPush
       THEN Outcome(h1, TypeError(<<"push is not a function">>), This(args))
     ELSE Outcome([h1 EXCEPT ![v2.ref].items = Append(@, val)], NoError, This(args))

\* function(key, val) { if (!this.args[name]) { this.args[name] = {} }
\*                      this.args[name][key] = val; return this; }
\* The file is in strict mode: a property write on a primitive throws.
MapAdderCall(h, args, name, key, val) ==
  LET cur == Get(h, Ref(args), name)
      h1 == IF Truthy(cur) THEN h
            ELSE Set(Append(h, NewObject(ObjectPrototype)), args, name, Ref(Len(h) + 1)).h
      v2 == Get(h1, Ref(args), name)
  IN IF v2 \in {Undefined, Null}
       THEN Outcome(h1, TypeError(<<"Cannot set property of undefined">>), This(args))
     ELSE IF ~IsRef(v2)
       THEN Outcome(h1, TypeError(<<"Cannot create property on primitive">>), This(args))
     ELSE LET s == Set(h1, v2.ref, key, val)
          IN Outcome(s.h, IF s.thrown THEN TypeError(<<"Immutable prototype">>) ELSE NoError,
                  This(args))

\* The loop over requiredParams, src/builder.js:265-272
RECURSIVE CheckRequired(_, _, _, _)
CheckRequired(h, args, nullables, required) ==
  IF required = <<>> THEN NoError
  ELSE LET requiredParam == Head(required)
       IN IF Get(h, Ref(args), requiredParam) = Undefined
            THEN MissingArgumentError(requiredParam)
          ELSE IF ~Truthy(Get(h, Ref(nullables), requiredParam))
                  /\ Get(h, Ref(args), requiredParam) = Null
            THEN NullArgumentError(requiredParam)
          ELSE CheckRequired(h, args, nullables, Tail(required))

\* for (const param of paramspec) { argsList.push(this.args[param.name]) }
ArgsList(h, args, spec) ==
  [i \in 1..Len(spec.items) |-> Get(h, Ref(args), Attr(spec.items[i], "name").v)]

\* build() calling the target constructor before it checks the required fields
BuildCall_InvokesFirst(h, args, b, spec, c) ==
  LET err == CheckRequired(h, args, b.nullables, b.requiredParams)
      r == invokeCnstr(c, ArgsList(h, args, spec), h)
  IN IF r.err # NoError
       THEN [err |-> r.err, invoked |-> TRUE, passed |-> ArgsList(h, args, spec),
             result |-> r.val, h |-> r.h]
     ELSE IF err # NoError
       THEN [err |-> err, invoked |-> TRUE, passed |-> ArgsList(h, args, spec),
             result |-> NoValue, h |-> r.h]
     ELSE [err |-> NoError, invoked |-> TRUE, passed |-> ArgsList(h, args, spec),
           result |-> r.val, h |-> r.h]

\* build() ending in this.args = {} once the target constructor has returned
BuildCall_ResetsStore(h, args, b, spec, c) ==
  LET err == CheckRequired(h, args, b.nullables, b.requiredParams)
      r == invokeCnstr(c, ArgsList(h, args, spec), h)
  IN IF err # NoError
       THEN [err |-> err, invoked |-> FALSE, passed |-> <<>>, result |-> NoValue, h |-> h]
       ELSE [err |-> r.err, invoked |-> TRUE, passed |-> ArgsList(h, args, spec),
             result |-> r.val,
             h |-> IF r.err = NoError THEN [r.h EXCEPT ![args].props = <<>>] ELSE r.h]

\* Bldr.prototype.build, src/builder.js:264-277
BuildCall(h, args, b, spec, c) ==
  LET err == CheckRequired(h, args, b.nullables, b.requiredParams)
      r == invokeCnstr(c, ArgsList(h, args, spec), h)
  IN IF err # NoError
       THEN [err |-> err, invoked |-> FALSE, passed |-> <<>>, result |-> NoValue, h |-> h]
       ELSE [err |-> r.err, invoked |-> TRUE, passed |-> ArgsList(h, args, spec),
             result |-> r.val, h |-> r.h]

-----------------------------------------------------------------------------
(* What the caller supplies *)

T == Bool(TRUE)
U == Undefined

SpecLists ==
  { <<ParamSpec(Str(sP), U, U, U, U, U), ParamSpec(Str(sQ), U, U, T, U, U)>>,
    <<ParamSpec(Str(sP), U, T, U, U, U), ParamSpec(Str(sQ), U, T, T, U, U)>>,
    <<ParamSpec(Str(sP), Str(sItem), U, U, T, U), ParamSpec(Str(sQ), U, U, U, U, T)>>,
    <<ParamSpec(Str(sP), Str(sItem), U, U, U, U)>>,
    <<ParamSpec(Str(sConstructor), U, T, U, U, U)>>,
    <<ParamSpec(Str(sConstructor), U, U, U, T, U)>>,
    <<ParamSpec(Str(sProto), U, U, U, U, U)>>,
    <<ParamSpec(Str(sP), U, U, U, U, U), ParamSpec(Str(sCapP), U, U, U, U, U)>>,
    <<ParamSpec(Str(sP), U, T, U, U, U), ParamSpec(Str(sP), U, U, T, U, U)>>,
    <<ParamSpec(Str(sP), U, U, U, T, T)>> }

Constructors == {TestConstructor, ReturnsTrue, ReturnsOwn, Throws}

\* Values handed to setters: undefined, null, a falsy number, the caller's
\* array and the caller's object
SetterVals == {Undefined, Null, Num(0), CallerArray, CallerObject}
ListVals == {Str(sA), Str(sB)}
\* (key, value) pairs handed to map accumulators
MapEntries == { <<sK, Str(sA)>>, <<sK, Str(sB)>>, <<sJ, Str(sA)>>,
                <<sOne, Str(sA)>>, <<sProto, Str(sA)>> }

\* Arguments and entries the tests of the constructor hand in
\* (src/test/builder.test.js:428-479), and the cases next to them
EmptyObject == [t |-> "object"]
EmptyArray == SpecArray(<<>>)
sHello == <<"h","e","l","l","o">>

\* first arguments that are no array
NonArrays == {Undefined, Null, Num(1), Str(sHello), Bool(TRUE), ReturnsTrue, EmptyObject}
\* second arguments that are no function
NonFunctions == {Undefined, Null, Num(1), Str(sHello), Bool(TRUE), EmptyObject, EmptyArray}
\* entries that are no specification object
NonRecords == {Null, Undefined, ReturnsTrue, Num(1), Str(sHello), Bool(TRUE), EmptyArray}
\* values of name that are no string, and the empty string
NonStrings == {Undefined, Null, Num(1), Bool(TRUE), ReturnsTrue, EmptyObject, EmptyArray}
EmptyString == Str(<<>>)
\* values of itemName that are no string: truthy ones and falsy ones
TruthyNonStrings == {Num(1), Bool(TRUE), ReturnsTrue, EmptyObject, EmptyArray}
FalsyNonStrings == {Num(0), Bool(FALSE), Null}

ValidEntry == ParamSpec(Str(sP), U, T, U, U, U)
ListAndMap == ParamSpec(Str(sQ), U, U, U, T, T)

\* entries create has something to say about
OddEntries ==
  NonRecords
    \cup {ParamSpec(n, U, U, U, U, U) : n \in NonStrings \cup {EmptyString}}
    \cup {ParamSpec(Str(sQ), i, U, U, l, U) :
            i \in TruthyNonStrings \cup FalsyNonStrings, l \in {U, T}}
    \cup {ListAndMap}

\* an odd entry alone, before a valid entry and after one; an entry that is
\* both list and map behind an entry with a wrong name; two valid lists
CreateLists ==
  {<<e>> : e \in OddEntries}
    \cup {<<e, ValidEntry>> : e \in OddEntries}
    \cup {<<ValidEntry, e>> : e \in OddEntries}
    \cup {<<ParamSpec(Num(1), U, U, U, U, U), ListAndMap>>,
          <<ListAndMap, ParamSpec(Num(1), U, U, U, U, U)>>,
          <<ValidEntry, ParamSpec(Str(sQ), U, U, U, U, U), ParamSpec(Str(sK), U, U, U, T, T)>>,
          <<ParamSpec(Str(sP), Str(sItem), U, U, T, U), ParamSpec(Str(sQ), U, U, U, U, T)>>,
          <<>>}

-----------------------------------------------------------------------------
(* The state machine *)

NoCall == [op |-> "none", b |-> 0, method |-> <<>>, err |-> NoError,
           invoked |-> FALSE, passed |-> <<>>, result |-> NoValue]

StartWith(arrays, cnstrs) ==
  /\ paramspec \in arrays
  /\ cnstr \in cnstrs
  /\ bldr = [status |-> "none", err |-> NoError, nullables |-> 0,
             requiredParams |-> <<>>, methods |-> <<>>]
  /\ heap = InitHeap
  /\ builders = <<>>
  /\ last = NoCall
  /\ hist = <<>>
  /\ ncalls = 0

Start(specs, cnstrs) == StartWith({SpecArray(l) : l \in specs}, cnstrs)

Init == Start(SpecLists, {TestConstructor})

\* new Builder(paramspec, cnstr)
Create ==
  /\ bldr.status = "none"
  /\ LET r == Builder(paramspec, cnstr, heap)
     IN /\ bldr' = [status |-> r.status, err |-> r.err, nullables |-> r.nullables,
                    requiredParams |-> r.requiredParams, methods |-> r.methods]
        /\ heap' = r.h
  /\ last' = [NoCall EXCEPT !.op = "create"]
  /\ UNCHANGED <<paramspec, cnstr, builders, hist, ncalls>>

\* new Bldr(): this.args = {}
Instantiate ==
  /\ bldr.status = "created"
  /\ heap' = Append(heap, NewObject(ObjectPrototype))
  /\ builders' = Append(builders, Len(heap) + 1)
  /\ hist' = Append(hist, <<>>)
  /\ last' = [NoCall EXCEPT !.op = "new", !.b = Len(builders) + 1]
  /\ UNCHANGED <<paramspec, cnstr, bldr, ncalls>>

\* the first instance of the generated type
NewBldr ==
  /\ builders = <<>>
  /\ Instantiate

\* further instances of the same type
AnotherBldr ==
  /\ builders # <<>>
  /\ Len(builders) < MaxBuilders
  /\ Instantiate

Called(b, m, kind, key, val, r) ==
  /\ heap' = r.h
  /\ last' = [NoCall EXCEPT !.op = kind, !.b = b, !.method = m, !.err = r.err,
                            !.result = r.ret]
  /\ hist' = [hist EXCEPT ![b] = Append(@, [kind |-> kind, name |-> bldr.methods[m].name,
                                             key |-> key, val |-> val, err |-> r.err])]
  /\ ncalls' = ncalls + 1
  /\ UNCHANGED <<paramspec, cnstr, bldr, builders>>

\* builder.setX(val)
CallSetter(b, m, val) ==
  /\ ncalls < MaxCalls
  /\ bldr.methods[m].kind = "set"
  /\ Called(b, m, "set", <<>>, val, SetterCall(heap, builders[b], bldr.methods[m].name, val))

\* builder.addX(val) of a list parameter
CallListAdder(b, m, val) ==
  /\ ncalls < MaxCalls
  /\ bldr.methods[m].kind = "addList"
  /\ Called(b, m, "addList", <<>>, val,
            ListAdderCall(heap, builders[b], bldr.methods[m].name, val))

\* builder.addX(key, val) of a map parameter
CallMapAdder(b, m, key, val) ==
  /\ ncalls < MaxCalls
  /\ bldr.methods[m].kind = "addMap"
  /\ Called(b, m, "addMap", key, val,
            MapAdderCall(heap, builders[b], bldr.methods[m].name, key, val))

\* builder.build()
CallBuild(b) ==
  /\ LET r == BuildCall(heap, builders[b], bldr, paramspec, cnstr)
     IN /\ last' = [op |-> "build", b |-> b, method |-> sBuild, err |-> r.err,
                    invoked |-> r.invoked, passed |-> r.passed, result |-> r.result]
        /\ heap' = r.h
  /\ UNCHANGED <<paramspec, cnstr, bldr, builders, hist, ncalls>>

SetX == \E b \in 1..Len(builders), m \in DOMAIN bldr.methods, val \in SetterVals :
          CallSetter(b, m, val)

AddItem == \E b \in 1..Len(builders), m \in DOMAIN bldr.methods, val \in ListVals :
             CallListAdder(b, m, val)

AddEntry == \E b \in 1..Len(builders), m \in DOMAIN bldr.methods, e \in MapEntries :
              CallMapAdder(b, m, e[1], e[2])

Build == \E b \in 1..Len(builders) : CallBuild(b)

\* One builder instance
Next == Create \/ NewBldr \/ SetX \/ AddItem \/ AddEntry \/ Build

Spec == Init /\ [][Next]_vars

\* Several builder instances of the generated type
NextShared == Next \/ AnotherBldr

InitShared ==
  Start({ <<ParamSpec(Str(sP), Str(sItem), U, U, T, U), ParamSpec(Str(sQ), U, U, U, U, T)>> },
        {TestConstructor})

SpecShared == InitShared /\ [][NextShared]_vars

\* Every kind of target constructor
InitTargets ==
  Start({ <<ParamSpec(Str(sP), Str(sItem), U, U, T, U), ParamSpec(Str(sQ), U, U, U, U, T)>> },
        Constructors)

SpecTargets == InitTargets /\ [][Next]_vars

\* What the caller does to its own array after new Builder(...) returned:
\* build() iterates the very array it was given (src/builder.js:275).

\* paramspec.push({name: 'q'})
PushEntry ==
  /\ bldr.status = "created"
  /\ Len(paramspec.items) < MaxEntries
  /\ paramspec' = [paramspec EXCEPT !.items = Append(@, ParamSpec(Str(sQ), U, U, U, U, U))]
  /\ UNCHANGED <<cnstr, bldr, heap, builders, last, hist, ncalls>>

\* paramspec.pop()
PopEntry ==
  /\ bldr.status = "created"
  /\ paramspec.items # <<>>
  /\ paramspec' = [paramspec EXCEPT !.items = SubSeq(@, 1, Len(@) - 1)]
  /\ UNCHANGED <<cnstr, bldr, heap, builders, last, hist, ncalls>>

\* paramspec[i].name = 'p' or 'q'
RenameEntry ==
  /\ bldr.status = "created"
  /\ \E i \in 1..Len(paramspec.items), s \in {sP, sQ} :
       /\ paramspec.items[i].name # Str(s)
       /\ paramspec' = [paramspec EXCEPT !.items[i].name = Str(s)]
  /\ UNCHANGED <<cnstr, bldr, heap, builders, last, hist, ncalls>>

\* paramspec[i].isRequired = !paramspec[i].isRequired
FlipRequired ==
  /\ bldr.status = "created"
  /\ \E i \in 1..Len(paramspec.items) :
       paramspec' = [paramspec EXCEPT !.items[i].isRequired =
                       Bool(~Truthy(paramspec.items[i].isRequired))]
  /\ UNCHANGED <<cnstr, bldr, heap, builders, last, hist, ncalls>>

\* A caller that keeps changing its specification array
NextMutable ==
  Create \/ NewBldr \/ SetX \/ Build \/ PushEntry \/ PopEntry \/ RenameEntry \/ FlipRequired

InitMutable ==
  Start({ <<ParamSpec(Str(sP), U, T, U, U, U), ParamSpec(Str(sQ), U, T, T, U, U)>> },
        {TestConstructor})

SpecMutable == InitMutable /\ [][NextMutable]_vars

\* new Builder(...) on every kind of argument and entry
InitCreate ==
  StartWith(NonArrays \cup {SpecArray(l) : l \in CreateLists},
            NonFunctions \cup {ReturnsTrue})

SpecCreate == InitCreate /\ [][Next]_vars

\* Lists with several required entries, some of them nullable
OrderLists ==
  { <<ParamSpec(Str(sP), U, T, U, U, U), ParamSpec(Str(sQ), U, T, U, U, U)>>,
    <<ParamSpec(Str(sP), U, T, T, U, U), ParamSpec(Str(sQ), U, T, U, U, U)>>,
    <<ParamSpec(Str(sP), U, T, U, U, U), ParamSpec(Str(sK), U, U, U, U, U),
      ParamSpec(Str(sQ), U, T, U, U, U)>>,
    <<ParamSpec(Str(sConstructor), U, T, U, U, U), ParamSpec(Str(sP), U, T, U, U, U)>> }

\* Setters and build() only
NextPlain == Create \/ NewBldr \/ SetX \/ Build

InitOrder == Start(OrderLists, {TestConstructor})

SpecOrder == InitOrder /\ [][NextPlain]_vars

\* build() on required list and map fields, with a target constructor that
\* returns one of its arguments among the others
InitFrame ==
  Start({ <<ParamSpec(Str(sP), Str(sItem), T, U, T, U), ParamSpec(Str(sQ), U, T, T, U, T)>> },
        {TestConstructor, ReturnsArg, Throws})

SpecFrame == InitFrame /\ [][Next]_vars

-----------------------------------------------------------------------------
(* Vocabulary of the properties *)

Entries == paramspec.items
NameOf(i) == Entries[i].name.v

\* The value the store of builder b holds for a field: its own entry, if any
Stored(b, name) ==
  IF HasOwn(heap[builders[b]], name) THEN OwnValue(heap[builders[b]], name) ELSE Undefined

\* Some setter or accumulator of the field has been called on builder b
Touched(b, name) == \E k \in 1..Len(hist[b]) : hist[b][k].name = name

\* The last setter or accumulator call made on the field, given one was made
LastCallOn(b, name) ==
  hist[b][CHOOSE k \in 1..Len(hist[b]) :
            /\ hist[b][k].name = name
            /\ \A j \in (k + 1)..Len(hist[b]) : hist[b][j].name # name]

\* The call that produced the current state, when it was a setter or accumulator
LastCall == hist[last.b][Len(hist[last.b])]

IsArrayValue(h, v) == IsRef(v) /\ h[v.ref].kind = "array"
IsPlainObject(h, v) == IsRef(v) /\ h[v.ref].kind = "object"

BuildInvoked == last.op = "build" /\ last.invoked

-----------------------------------------------------------------------------
(* C1: build() passes the target constructor one argument per specification
   entry, in declaration order; position i holds the value stored for entry
   i's name, and undefined when that field was never set nor accumulated
   into. *)
C1_ArgumentList ==
  BuildInvoked =>
    /\ Len(last.passed) = Len(Entries)
    /\ \A i \in 1..Len(Entries) :
         last.passed[i] = IF Touched(last.b, NameOf(i))
                          THEN Stored(last.b, NameOf(i)) ELSE Undefined

\* The required entries whose field is absent from the store of b or holds undefined
MissingEntries(b) ==
  {i \in 1..Len(Entries) :
     /\ Truthy(Entries[i].isRequired)
     /\ (~Touched(b, NameOf(i)) \/ Stored(b, NameOf(i)) = Undefined)}

(* C2: build() raises MissingArgumentError naming a required field whenever
   a required entry's field was never set nor accumulated into or holds
   undefined, whatever the entry's name; and raises no MissingArgumentError
   when every required field holds a defined value. *)
C2_MissingArgument ==
  last.op = "build" =>
    /\ MissingEntries(last.b) # {} => ~last.invoked
    /\ last.err.name = "MissingArgumentError" =>
         \E i \in MissingEntries(last.b) : NameOf(i) = last.err.paramName

\* The required entries not flagged isNullable whose field holds null
NullEntries(b) ==
  {i \in 1..Len(Entries) :
     /\ Truthy(Entries[i].isRequired)
     /\ ~Truthy(Entries[i].isNullable)
     /\ Stored(b, NameOf(i)) = Null}

(* C3: build() raises NullArgumentError naming a field exactly when the
   field's entry is required, is not flagged isNullable and the stored value
   is null; fields of entries that are not required are never checked. *)
C3_NullArgument ==
  last.op = "build" =>
    /\ NullEntries(last.b) # {} => ~last.invoked
    /\ last.err.name = "NullArgumentError" =>
         \E i \in NullEntries(last.b) : NameOf(i) = last.err.paramName
    /\ last.err.name \in {"MissingArgumentError", "NullArgumentError"} =>
         \E i \in 1..Len(Entries) :
           NameOf(i) = last.err.paramName /\ Truthy(Entries[i].isRequired)

(* C4: when the last call made on a field is setX(v), build() passes exactly
   v for that field, whatever setter and accumulator calls came before. *)
C4_SetterReplaces ==
  BuildInvoked =>
    \A i \in 1..Len(Entries) :
      (Touched(last.b, NameOf(i)) /\ LastCallOn(last.b, NameOf(i)).kind = "set")
        => last.passed[i] = LastCallOn(last.b, NameOf(i)).val

\* What one call of a list accumulator does to the field it is bound to
C5_ListStep ==
  (ncalls' = ncalls + 1 /\ last'.op = "addList") =>
    LET b == last'.b
        name == bldr.methods[last'.method].name
        before == Get(heap, Ref(builders[b]), name)
        after == Get(heap', Ref(builders[b]), name)
    IN /\ ~Touched(b, name) =>
            /\ last'.err = NoError
            /\ IsArrayValue(heap', after)
            /\ heap'[after.ref].items = <<hist'[b][Len(hist'[b])].val>>
       /\ (Touched(b, name) /\ IsArrayValue(heap, before)) =>
            /\ last'.err = NoError
            /\ after = before
            /\ heap'[after.ref].items =
                 Append(heap[before.ref].items, hist'[b][Len(hist'[b])].val)

(* C5: the accumulator of a list entry, called on a field with no stored
   value, leaves the one-element sequence of its argument; called on a
   field holding a sequence, it appends its argument at the end. *)
C5_ListAccumulation == [][C5_ListStep]_vars

\* What one call of a map accumulator does to the field it is bound to
C6_MapStep ==
  (ncalls' = ncalls + 1 /\ last'.op = "addMap") =>
    LET b == last'.b
        name == bldr.methods[last'.method].name
        call == hist'[b][Len(hist'[b])]
        before == Get(heap, Ref(builders[b]), name)
        after == Get(heap', Ref(builders[b]), name)
        keys == IF IsPlainObject(heap, before) THEN OwnKeys(heap[before.ref]) ELSE <<>>
    IN (~Truthy(before) \/ IsPlainObject(heap, before)) =>
         /\ last'.err = NoError
         /\ IsPlainObject(heap', after)
         /\ OwnKeys(heap'[after.ref]) =
              IF \E n \in 1..Len(keys) : keys[n] = call.key
              THEN keys ELSE Append(keys, call.key)
         /\ HasOwn(heap'[after.ref], call.key)
         /\ OwnValue(heap'[after.ref], call.key) = call.val
         /\ \A n \in 1..Len(keys) :
              keys[n] # call.key =>
                OwnValue(heap'[after.ref], keys[n]) = OwnValue(heap[before.ref], keys[n])

(* C6: after addEntry(k, v) on a map entry the map holds v for k and what it
   held for every other key, and its keys appear in first-insertion order:
   a key already present keeps its place, a new key comes last. *)
C6_MapAccumulation == [][C6_MapStep]_vars

(* C7: the value build() returns has the prototype and the own properties of
   the value that invoking the target constructor directly with the same
   arguments yields: build adds no own property and removes none. *)
C7_SameAsDirectConstruction ==
  BuildInvoked =>
    last.result = Construct(PrototypeOf(cnstr), cnstr, last.passed).val

\* Some entry of that name is a list entry
IsListField(name) ==
  \E i \in 1..Len(Entries) : NameOf(i) = name /\ Truthy(Entries[i].isList)

(* C8: the setter of a list entry raises a TypeError when called with
   anything other than an array, and succeeds when called with an array. *)
C8_ListSetterRequiresArray ==
  (last.op = "set" /\ IsListField(LastCall.name)) =>
    IF IsArrayValue(heap, LastCall.val)
    THEN last.err = NoError
    ELSE last.err.name = "TypeError"

\* A value with every reference replaced by the contents it refers to
RECURSIVE Deep(_, _)
Deep(h, v) ==
  IF ~IsRef(v) THEN v
  ELSE [t |-> h[v.ref].kind,
        items |-> [n \in 1..Len(h[v.ref].items) |-> Deep(h, h[v.ref].items[n])],
        keys |-> OwnKeys(h[v.ref]),
        vals |-> [n \in 1..Len(h[v.ref].props) |-> Deep(h, h[v.ref].props[n][2])]]

\* The argument list build() would hand to the target constructor on builder b
WouldPass(b) ==
  [i \in 1..Len(Entries) |-> Deep(heap, ArgsList(heap, builders[b], paramspec)[i])]

\* A call on one builder leaves what every other builder would pass unchanged
C9_Step ==
  \A b \in 1..Len(builders) :
    (ncalls' = ncalls + 1 /\ last'.b # b) => WouldPass(b)' = WouldPass(b)

(* C9: no setter or accumulator call on one builder instance changes the
   arguments build() passes on another instance, also when both instances
   were handed the same array or object through their setters. *)
C9_NoSharedState == [][C9_Step]_vars

\* The accumulator name of entry i
AdderKeyOf(i) ==
  sAdd \o captlize1stChar(IF Truthy(Entries[i].itemName) THEN Entries[i].itemName.v
                          ELSE NameOf(i))

(* C10: the generated type has exactly one setter per entry, named
   set+Capitalized(name), an accumulator named add+Capitalized(itemName if
   present, else name) for every isList or isMap entry, and no accumulator
   for the other entries. *)
C10_MethodsPerEntry ==
  bldr.status = "created" =>
    /\ \A i \in 1..Len(Entries) :
         /\ sSet \o captlize1stChar(NameOf(i)) \in DOMAIN bldr.methods
         /\ bldr.methods[sSet \o captlize1stChar(NameOf(i))] = Setter(NameOf(i))
         /\ Truthy(Entries[i].isList) =>
              /\ AdderKeyOf(i) \in DOMAIN bldr.methods
              /\ bldr.methods[AdderKeyOf(i)] = ListAdder(NameOf(i))
         /\ Truthy(Entries[i].isMap) =>
              /\ AdderKeyOf(i) \in DOMAIN bldr.methods
              /\ bldr.methods[AdderKeyOf(i)] = MapAdder(NameOf(i))
         /\ (~Truthy(Entries[i].isList) /\ ~Truthy(Entries[i].isMap)) =>
              \A m \in DOMAIN bldr.methods :
                bldr.methods[m].kind \in {"addList", "addMap"} =>
                  bldr.methods[m].name # NameOf(i)
    /\ Cardinality({m \in DOMAIN bldr.methods : bldr.methods[m].kind = "set"})
         = Len(Entries)

\* A change of the caller's array changes, for no builder, the arguments
\* build() would pass nor the outcome of its check of the required fields
C11_Step ==
  paramspec' # paramspec =>
    \A b \in 1..Len(builders) :
      /\ ArgsList(heap', builders[b], paramspec') = ArgsList(heap, builders[b], paramspec)
      /\ CheckRequired(heap', builders[b], bldr'.nullables, bldr'.requiredParams)
           = CheckRequired(heap, builders[b], bldr.nullables, bldr.requiredParams)

(* C11: the specification list is fixed at create time: when the caller
   adds, removes or renames entries or flips isRequired after create
   returned, build() passes the same number and order of arguments as before
   and checks the same fields as required. *)
C11_FixedAtCreate == [][C11_Step]_vars

\* new Builder(...) has been called
Created == bldr.status # "none"
\* it threw, so the caller holds no builder type and can make no instance
NoBuilderType == bldr.status = "threw" /\ bldr.methods = <<>> /\ builders = <<>>

(* C12: when the first argument is no array or the second no function,
   create raises the plain TypeError of an invalid configuration, never the
   error of an invalid entry, whatever entries the list holds, and returns
   no builder type. *)
C12_ConfigurationError ==
  (Created /\ (paramspec.t # "array" \/ cnstr.t # "function")) =>
    /\ bldr.err.name = "TypeError"
    /\ NoBuilderType

\* create was given no function and a list whose first entry is null
C12_Witness ==
  /\ Created
  /\ cnstr = Null
  /\ paramspec.t = "array" /\ paramspec.items # <<>> /\ paramspec.items[1] = Null
  /\ bldr.err.name = "TypeError"

\* create was handed an array and a function
ValidArguments == paramspec.t = "array" /\ cnstr.t = "function"

\* An entry the specification allows: a record with a string name, an
\* itemName that is absent or a string, and not both list and map
WellFormed(e) ==
  /\ e.t = "paramspec"
  /\ e.name.t = "string"
  /\ e.itemName.t \in {"undefined", "string"}
  /\ ~(Truthy(e.isList) /\ Truthy(e.isMap))

\* Entry i is a record with a string name flagged both list and map
ListAndMapAt(i) ==
  /\ Entries[i].t = "paramspec"
  /\ Entries[i].name.t = "string"
  /\ Entries[i].itemName.t \in {"undefined", "string"}
  /\ Truthy(Entries[i].isList) /\ Truthy(Entries[i].isMap)

(* C13: when an entry is flagged both isList and isMap, create raises the
   error of an invalid entry and returns no builder type, wherever the entry
   stands; when the entries before it are well formed the error names that
   entry and says the two flags are mutually exclusive. *)
C13_ListAndMapExclusive ==
  (Created /\ ValidArguments) =>
    \A i \in 1..Len(Entries) :
      ListAndMapAt(i) =>
        /\ bldr.err.name = "ParamSpecTypeError"
        /\ NoBuilderType
        /\ (\A j \in 1..(i - 1) : WellFormed(Entries[j])) =>
             /\ bldr.err.paramName = Entries[i].name
             /\ bldr.err.message = Str(<<"isList and isMap are mutually exclusive">>)

\* create was refused for a third entry that is both list and map
C13_Witness ==
  /\ Created /\ ValidArguments
  /\ Len(Entries) = 3 /\ ListAndMapAt(3)
  /\ bldr.err.paramName = Str(sK)

\* Entry i is a record whose name is no string
NameNotStringAt(i) == Entries[i].t = "paramspec" /\ Entries[i].name.t # "string"

\* Entry i is a record whose name is the empty string
NameEmptyAt(i) == Entries[i].t = "paramspec" /\ Entries[i].name = EmptyString

(* C14: create raises the error of an invalid entry whenever an entry's
   name is not a non-empty string: missing, null, a number, a boolean, a
   function, an object, an array, and also the empty string. *)
C14_NonEmptyStringName ==
  (Created /\ ValidArguments) =>
    \A i \in 1..Len(Entries) :
      (NameNotStringAt(i) \/ NameEmptyAt(i)) =>
        bldr.err.name = "ParamSpecTypeError" /\ NoBuilderType

(* C14, amended: create raises the error of an invalid entry whenever an
   entry's name is not a string (missing, null, a number, a boolean, a
   function, an object, an array); every string is accepted as a name, the
   empty one included: a list of well-formed entries yields a builder type. *)
C14_StringName ==
  (Created /\ ValidArguments) =>
    /\ \A i \in 1..Len(Entries) :
         NameNotStringAt(i) => bldr.err.name = "ParamSpecTypeError" /\ NoBuilderType
    /\ (\A i \in 1..Len(Entries) : WellFormed(Entries[i])) => bldr.status = "created"

\* create refused a second entry whose name is a function
C14_Witness ==
  /\ Created /\ ValidArguments
  /\ Len(Entries) = 2 /\ WellFormed(Entries[1])
  /\ NameNotStringAt(2) /\ Entries[2].name = ReturnsTrue
  /\ bldr.err.name = "ParamSpecTypeError"

(* C15: an entry that is no non-null record (null, undefined, a primitive,
   an array, a function) makes create raise the error of an invalid entry
   whose reason says that the entry must be a non-null object, and whose
   identification of the entry is a value of its own, apart from the reason. *)
C15_NotARecord ==
  (Created /\ ValidArguments) =>
    \A i \in 1..Len(Entries) :
      (Entries[i].t # "paramspec" /\ \A j \in 1..(i - 1) : WellFormed(Entries[j])) =>
        /\ bldr.err.name = "ParamSpecTypeError"
        /\ NoBuilderType
        /\ bldr.err.message = Str(<<"must be a non-null object">>)
        /\ bldr.err.paramName # bldr.err.message

\* Entry i is a record with a string name whose itemName is present and no string
ItemNameNotStringAt(i) ==
  /\ Entries[i].t = "paramspec"
  /\ Entries[i].name.t = "string"
  /\ Entries[i].itemName.t \notin {"undefined", "string"}

\* An entry the code lets pass: as WellFormed, but any falsy itemName will do
Accepted(e) ==
  /\ e.t = "paramspec"
  /\ e.name.t = "string"
  /\ (e.itemName.t = "string" \/ ~Truthy(e.itemName))
  /\ ~(Truthy(e.isList) /\ Truthy(e.isMap))

(* C16: when an entry has an itemName, create raises the error of an
   invalid entry unless the itemName is a string, for every non-string
   value, the falsy ones 0, false and null included. *)
C16_ItemNameString ==
  (Created /\ ValidArguments) =>
    \A i \in 1..Len(Entries) :
      ItemNameNotStringAt(i) => bldr.err.name = "ParamSpecTypeError" /\ NoBuilderType

(* C16, amended: create raises the error of an invalid entry, naming the
   entry, when its itemName is truthy and no string; a falsy itemName (0,
   false, null) is taken as absent: the entry is accepted and the
   accumulator of a list entry is named after name. *)
C16_TruthyItemNameString ==
  (Created /\ ValidArguments) =>
    /\ \A i \in 1..Len(Entries) :
         (ItemNameNotStringAt(i) /\ Truthy(Entries[i].itemName)) =>
           /\ bldr.err.name = "ParamSpecTypeError"
           /\ NoBuilderType
           /\ (\A j \in 1..(i - 1) : WellFormed(Entries[j])) =>
                /\ bldr.err.paramName = Entries[i].name
                /\ bldr.err.message = Str(<<"itemName must be a string">>)
    /\ (\A i \in 1..Len(Entries) : Accepted(Entries[i])) =>
         /\ bldr.status = "created"
         /\ \A i \in 1..Len(Entries) :
              (Truthy(Entries[i].isList) /\ ~Truthy(Entries[i].itemName)) =>
                /\ sAdd \o captlize1stChar(NameOf(i)) \in DOMAIN bldr.methods
                /\ bldr.methods[sAdd \o captlize1stChar(NameOf(i))] = ListAdder(NameOf(i))

\* create refused a list entry whose itemName is an object
C16_Witness ==
  /\ Created /\ ValidArguments
  /\ Len(Entries) = 2 /\ WellFormed(Entries[1])
  /\ ItemNameNotStringAt(2) /\ Entries[2].itemName = EmptyObject
  /\ Truthy(Entries[2].isList)
  /\ bldr.err.message = Str(<<"itemName must be a string">>)

(* C17: every setter call and every list or map accumulator call that
   returns, returns the very builder instance it was called on, the one
   holding the store the call wrote to, so a chain of calls stays on one
   instance and one store. *)
C17_ReturnsThis ==
  (last.op \in {"set", "addList", "addMap"} /\ last.err = NoError) =>
    last.result = This(builders[last.b])

\* a chain of a setter, a list accumulator and a map accumulator has returned
C17_Witness ==
  /\ last.op = "addMap" /\ last.err = NoError
  /\ Len(hist[last.b]) = 3
  /\ hist[last.b][1].kind = "set" /\ hist[last.b][1].err = NoError
  /\ hist[last.b][2].kind = "addList" /\ hist[last.b][2].err = NoError
  /\ last.result = This(builders[last.b])

(* C18: build() either returns a constructed result or raises: when it
   raises MissingArgumentError or NullArgumentError the target constructor
   has not been invoked and no value is returned; when it raises nothing the
   target constructor has been invoked and its result is returned. *)
C18_AllOrNothing ==
  last.op = "build" =>
    /\ last.err.name \in {"MissingArgumentError", "NullArgumentError"} =>
         ~last.invoked /\ last.passed = <<>> /\ last.result = NoValue
    /\ last.err = NoError => last.invoked /\ last.result.t = "instance"

\* build() refused a required field that a setter call had set to null
C18_Witness ==
  /\ last.op = "build"
  /\ last.err.name = "NullArgumentError"
  /\ Touched(last.b, last.err.paramName)
  /\ Stored(last.b, last.err.paramName) = Null
  /\ ~last.invoked

\* What the target constructor throws when called with the arguments build() passed
TargetFailure == Apply(cnstr, Instance(PrototypeOf(cnstr), <<>>), last.passed).err

(* C19: when the target constructor throws during build(), build() throws
   the very same value and returns nothing. *)
C19_FailurePropagates ==
  (BuildInvoked /\ TargetFailure # NoError) =>
    last.err = TargetFailure /\ last.result = NoValue

\* build() on a builder with an accumulated list ran into a throwing constructor
C19_Witness ==
  /\ BuildInvoked
  /\ cnstr = Throws
  /\ Touched(last.b, sP)
  /\ last.err = TargetError

\* The required entries whose field fails the validation of build() on builder b
FailingEntries(b) == MissingEntries(b) \cup NullEntries(b)

\* The first of them in declaration order
FirstFailing(b) == CHOOSE i \in FailingEntries(b) : \A j \in FailingEntries(b) : i <= j

(* C20: when one or several required fields fail validation, build()
   reports the first failing required entry in declaration order, as
   missing when its field is absent or undefined and as null when it holds
   null and the entry is not nullable, whatever the later entries hold. *)
C20_FirstFailingEntry ==
  (last.op = "build" /\ FailingEntries(last.b) # {}) =>
    /\ last.err.paramName = NameOf(FirstFailing(last.b))
    /\ last.err.name = IF FirstFailing(last.b) \in MissingEntries(last.b)
                       THEN "MissingArgumentError" ELSE "NullArgumentError"

\* What build() on builder b does on heap h: the error it raises and the
\* arguments it passes
BuildOutcome(h, b) ==
  LET r == BuildCall(h, builders[b], bldr, paramspec, cnstr)
  IN [err |-> r.err, invoked |-> r.invoked, passed |-> r.passed]

\* A call of build(): the store of every builder holds after it what it held
\* before, and build() called again would end as this call ended
C21_Step ==
  (last'.op = "build" /\ UNCHANGED <<builders, hist>>) =>
    /\ \A b \in 1..Len(builders) : heap'[builders[b]] = heap[builders[b]]
    /\ BuildOutcome(heap', last'.b) =
         [err |-> last'.err, invoked |-> last'.invoked, passed |-> last'.passed]

(* C21: build() leaves the builder's store unchanged whether it succeeds or
   raises: every field holds after build() the value it held before, and
   build() called again with no setter or accumulator call in between passes
   the same argument list or raises the same error. *)
C21_BuildLeavesStore == [][C21_Step]_vars

\* build() has handed a stored array to a target constructor that returned it,
\* and invokeCnstr has written to that array
C21_Witness ==
  /\ BuildInvoked /\ last.err = NoError
  /\ cnstr = ReturnsArg
  /\ IsArrayValue(heap, last.result)
  /\ last.result = Stored(last.b, sP)
  /\ HasOwn(heap[last.result.ref], sConstructor)

====
